---- MODULE Spec2Model ----
(***************************************************************************)
(* PyElispotAnalysis: the Streamlit script PyElispotAnalysis_StreamlitApp  *)
(* and the functions of modules.py it calls.                               *)
(*                                                                         *)
(* The script is rerun from its first line on every widget event.  One run *)
(* is the sequence read_image, size check, resize_image,                   *)
(* make_segmented_image, morphologyEx, invert, label, counts_spots, and    *)
(* the report.  In the script's model an image is its shape, its number of *)
(* channels and the circles drawn on it; the connected regions that label()*)
(* finds are an input of the run.  read_image and make_segmented_image     *)
(* are modelled pixel by pixel on one-row images in their own              *)
(* specifications (SpecReadImage, SpecSegment).                            *)
(***************************************************************************)
EXTENDS Integers, Sequences, FiniteSets, TLC

VARIABLES
    uploaded_file,      \* st.file_uploader's value: None or the uploaded file
    session_state,      \* st.session_state: the four slider keys
    pc,                 \* the line the script run is at
    BlockSize, Constant, MinimumAreaKey, MaximumAreaKey,  \* script globals
    img_scaled, mask_image, opened, inverted_opened, labeled_image,
    circled_image, counter, label_counter, region_index,  \* counts_spots locals
    returned,           \* the tuple counts_spots returned
    ui,                 \* elements the run has put on the page, in order
    raised,             \* the exception that ended the run, or "none"
    image,              \* read_image / make_segmented_image: the input grid
    fn_args,            \* make_segmented_image: <<BlockSize, Constant>>
    fn_result           \* the called function's result, <<>> before the call

appVars == <<uploaded_file, session_state, pc, BlockSize, Constant,
             MinimumAreaKey, MaximumAreaKey, img_scaled, mask_image, opened,
             inverted_opened, labeled_image, circled_image, counter,
             label_counter, region_index, returned, ui, raised>>
fnVars == <<image, fn_args, fn_result>>
vars == <<appVars, fnVars>>

----------------------------------------------------------------------------
(* Bounds and input sets *)

\* Most regions label() reports in one run.
MaxRegions == 2

\* Heights and widths of the uploaded images.
Dims == {1, 141, 1000, 1001}

\* Centroids (row, column) of the regions, already truncated by int().
Centroids == {<<3, 5>>}

\* read_image, make_segmented_image: the input is a one-row array of at most
\* MaxWidth pixels with intensities 0..MaxGray or 255.
MaxWidth == 3
MaxGray == 2

\* Most steps a slider is dragged by one event.
MaxDrag == 2

\* make_segmented_image: the window sizes whose Gaussian kernel OpenCV takes
\* from its table of small kernels.
BlockSizes == {5, 7}

----------------------------------------------------------------------------
(* Program constants *)

allowed_image_size == 1000
new_width == 674

BlockSizeSlider == [min_value |-> 5, max_value |-> 101, value |-> 31, step |-> 2]
ConstantSlider == [min_value |-> 2, max_value |-> 20, value |-> 8, step |-> 2]
MinimumAreaSlider == [min_value |-> 2, max_value |-> 50, value |-> 10, step |-> 2]
MaximumAreaSlider == [min_value |-> 500, max_value |-> 2000, value |-> 1000, step |-> 100]

\* Python's None, for a variable that holds no file or no image.
None == [none |-> TRUE]

----------------------------------------------------------------------------
(* Sliders *)

\* Mutant: the slider ignores its step.
SliderValues_NoStep(s) == s.min_value .. s.max_value

\* The values a st.slider with min_value, max_value and step can take.
SliderValues(s) ==
    {s.min_value + k * s.step : k \in 0 .. (s.max_value - s.min_value) \div s.step}

\* The slider positions the user moves to in the script's specification:
\* both ends and the default.
SliderStops(s) == {s.min_value, s.value, s.max_value} \cap SliderValues(s)

----------------------------------------------------------------------------
(* modules.py *)

\* int(image.shape[0] * (float(new_width) / image.shape[1])) in float64.
\* The product falls just below the exact quotient for these shapes
\* (of the shapes in Dims x Dims), and int() then truncates one lower.
FloatShortfall == {<<141, 141>>}

new_height(shape) ==
    IF shape \in FloatShortfall
    THEN (shape[1] * new_width) \div shape[2] - 1
    ELSE (shape[1] * new_width) \div shape[2]

\* resize_image: the shape cv2.resize is asked for, as (rows, columns).
resize_image(img) == [img EXCEPT !.shape = <<new_height(img.shape), new_width>>]

\* cvtColor(grayscale_parent_image, COLOR_GRAY2RGB): a new 3-channel array.
cvtColor(img) == [img EXCEPT !.channels = 3]

\* int(0.5 * region.equivalent_diameter) = int(sqrt(area / pi)):
\* the largest r with pi * r^2 < area.
RECURSIVE RadiusFrom(_, _)
RadiusFrom(area, r) ==
    IF 314159 * (r + 1) * (r + 1) < 100000 * area
    THEN RadiusFrom(area, r + 1)
    ELSE r
radius(region) == RadiusFrom(region.area, 0)

\* Mutant: the upper bound is exclusive.
Keep_Exclusive(region, min_area, max_area) ==
    min_area <= region.area /\ region.area < max_area

\* counts_spots' condition (min_area <= region.area <= max_area).
Keep(region, min_area, max_area) ==
    min_area <= region.area /\ region.area <= max_area

\* circle(circled_image, (x0, y0), radius, scaled_rgb, 1) draws in place.
circle(img, region) ==
    [img EXCEPT !.circles =
        Append(@, [center |-> <<region.centroid[2], region.centroid[1]>>,
                   radius |-> radius(region)])]

----------------------------------------------------------------------------
(* The script *)

\* Mutant: the image is rejected only when both dimensions exceed the limit.
ExceedsAllowedSize_Both(shape) ==
    shape[1] > allowed_image_size /\ shape[2] > allowed_image_size

\* img_scaled.shape[0] > allowed_image_size or img_scaled.shape[1] > ...
ExceedsAllowedSize(shape) ==
    shape[1] > allowed_image_size \/ shape[2] > allowed_image_size

Files == {[shape |-> <<h, w>>] : h \in Dims, w \in Dims}

RECURSIVE SumAreas(_)
SumAreas(regions) ==
    IF regions = <<>> THEN 0
    ELSE Head(regions).area + SumAreas(Tail(regions))

\* Areas at and next to both ends of the range the sliders give.
RegionAreas(min_area, max_area) ==
    {min_area - 1, min_area, max_area, max_area + 1}

\* What regionprops(labeled_image) can list, in label order: up to
\* MaxRegions regions that fit into an array of the given shape.
RegionLists(shape, min_area, max_area) ==
    {regions \in UNION {[1..n -> [area : RegionAreas(min_area, max_area),
                                   centroid : Centroids]] : n \in 0..MaxRegions} :
        SumAreas(regions) <= shape[1] * shape[2]}

\* The script from its first line to the uploaded_file check: it reads the
\* four sliders into its globals and stops when there is no file.
RunScript(file, state) ==
    /\ uploaded_file' = file
    /\ session_state' = state
    /\ BlockSize' = state.BlockSizeKey
    /\ Constant' = state.ConstantKey
    /\ MinimumAreaKey' = state.MinimumAreaKey
    /\ MaximumAreaKey' = state.MaximumAreaKey
    /\ pc' = IF file = None THEN "stopped" ELSE "read_image"
    /\ img_scaled' = None /\ mask_image' = None /\ opened' = None
    /\ inverted_opened' = None /\ labeled_image' = None
    /\ circled_image' = None /\ counter' = 0 /\ label_counter' = 0
    /\ region_index' = 0 /\ returned' = <<>>
    /\ ui' = <<>> /\ raised' = "none"
    /\ UNCHANGED fnVars

AppInit ==
    /\ uploaded_file = None
    /\ session_state = [BlockSizeKey |-> BlockSizeSlider.value,
                        ConstantKey |-> ConstantSlider.value,
                        MinimumAreaKey |-> MinimumAreaSlider.value,
                        MaximumAreaKey |-> MaximumAreaSlider.value]
    /\ BlockSize = BlockSizeSlider.value
    /\ Constant = ConstantSlider.value
    /\ MinimumAreaKey = MinimumAreaSlider.value
    /\ MaximumAreaKey = MaximumAreaSlider.value
    /\ pc = "stopped"
    /\ img_scaled = None /\ mask_image = None /\ opened = None
    /\ inverted_opened = None /\ labeled_image = None
    /\ circled_image = None /\ counter = 0 /\ label_counter = 0
    /\ region_index = 0 /\ returned = <<>>
    /\ ui = <<>> /\ raised = "none"

FnIdle ==
    /\ image = <<>> /\ fn_args = <<>> /\ fn_result = <<>>

Init == AppInit /\ FnIdle

\* The user uploads a file (or removes it); the script reruns.
UploadFile == \E file \in Files \cup {None} :
    /\ file # uploaded_file
    /\ RunScript(file, session_state)

\* The user moves one slider to a value of the given set; the script reruns.
MoveSlider(key, values) == \E v \in values :
    /\ v # session_state[key]
    /\ RunScript(uploaded_file, [session_state EXCEPT ![key] = v])


\* A single-channel array of the given shape with nothing drawn on it.
GrayImage(shape) == [shape |-> shape, channels |-> 1, circles |-> <<>>]

\* img_scaled = read_image(uploaded_file): the array has the file's shape.
ReadImage ==
    /\ pc = "read_image"
    /\ img_scaled' = GrayImage(uploaded_file.shape)
    /\ pc' = "size_check"
    /\ UNCHANGED <<uploaded_file, session_state, BlockSize, Constant,
                   MinimumAreaKey, MaximumAreaKey, mask_image, opened,
                   inverted_opened, labeled_image, circled_image, counter,
                   label_counter, region_index, returned, ui, raised, fnVars>>

\* The allowed_image_size check: st.error and st.stop, or on to the resize.
SizeCheck ==
    /\ pc = "size_check"
    /\ IF ExceedsAllowedSize(img_scaled.shape)
       THEN /\ ui' = Append(ui, [element |-> "error"])
            /\ pc' = "stopped"
       ELSE /\ ui' = ui
            /\ pc' = "resize_image"
    /\ UNCHANGED <<uploaded_file, session_state, BlockSize, Constant,
                   MinimumAreaKey, MaximumAreaKey, img_scaled, mask_image,
                   opened, inverted_opened, labeled_image, circled_image,
                   counter, label_counter, region_index, returned, raised,
                   fnVars>>

\* img_scaled = resize_image(img_scaled); cv2.resize raises cv2.error when
\* the size it is asked for has no rows.
ResizeImage ==
    /\ pc = "resize_image"
    /\ IF new_height(img_scaled.shape) <= 0
       THEN /\ raised' = "cv2.error"
            /\ pc' = "stopped"
            /\ img_scaled' = img_scaled
       ELSE /\ raised' = raised
            /\ pc' = "make_segmented_image"
            /\ img_scaled' = resize_image(img_scaled)
    /\ UNCHANGED <<uploaded_file, session_state, BlockSize, Constant,
                   MinimumAreaKey, MaximumAreaKey, mask_image, opened,
                   inverted_opened, labeled_image, circled_image, counter,
                   label_counter, region_index, returned, ui, fnVars>>

\* mask_image = make_segmented_image(img_scaled, BlockSize, Constant):
\* an array of the shape of img_scaled.
MakeSegmentedImage ==
    /\ pc = "make_segmented_image"
    /\ mask_image' = GrayImage(img_scaled.shape)
    /\ pc' = "morphologyEx"
    /\ UNCHANGED <<uploaded_file, session_state, BlockSize, Constant,
                   MinimumAreaKey, MaximumAreaKey, img_scaled, opened,
                   inverted_opened, labeled_image, circled_image, counter,
                   label_counter, region_index, returned, ui, raised, fnVars>>

\* opened = morphologyEx(mask_image, MORPH_OPEN, kernel)
MorphologyEx ==
    /\ pc = "morphologyEx"
    /\ opened' = GrayImage(mask_image.shape)
    /\ pc' = "invert"
    /\ UNCHANGED <<uploaded_file, session_state, BlockSize, Constant,
                   MinimumAreaKey, MaximumAreaKey, img_scaled, mask_image,
                   inverted_opened, labeled_image, circled_image, counter,
                   label_counter, region_index, returned, ui, raised, fnVars>>

\* inverted_opened = 1 - opened
Invert ==
    /\ pc = "invert"
    /\ inverted_opened' = GrayImage(opened.shape)
    /\ pc' = "label"
    /\ UNCHANGED <<uploaded_file, session_state, BlockSize, Constant,
                   MinimumAreaKey, MaximumAreaKey, img_scaled, mask_image,
                   opened, labeled_image, circled_image, counter,
                   label_counter, region_index, returned, ui, raised, fnVars>>

\* labeled_image = label(inverted_opened, connectivity=2): the regions found
\* depend on the pixels, which are an input of the run.
Label ==
    /\ pc = "label"
    /\ \E regions \in RegionLists(inverted_opened.shape,
                                  MinimumAreaKey, MaximumAreaKey) :
          labeled_image' = [shape |-> inverted_opened.shape,
                            regions |-> regions]
    /\ pc' = "counts_spots"
    /\ UNCHANGED <<uploaded_file, session_state, BlockSize, Constant,
                   MinimumAreaKey, MaximumAreaKey, img_scaled, mask_image,
                   opened, inverted_opened, circled_image, counter,
                   label_counter, region_index, returned, ui, raised, fnVars>>

\* counts_spots up to its loop: the color copy and the two counters.
CountsSpotsEnter ==
    /\ pc = "counts_spots"
    /\ circled_image' = cvtColor(img_scaled)
    /\ counter' = 0
    /\ label_counter' = 1
    /\ region_index' = 1
    /\ pc' = "counts_loop"
    /\ UNCHANGED <<uploaded_file, session_state, BlockSize, Constant,
                   MinimumAreaKey, MaximumAreaKey, img_scaled, mask_image,
                   opened, inverted_opened, labeled_image, returned, ui,
                   raised, fnVars>>

\* Mutant: the circles are drawn on the source array too (no copy made).
CountsSpotsLoop_NoCopy ==
    /\ pc = "counts_loop"
    /\ region_index <= Len(labeled_image.regions)
    /\ LET region == labeled_image.regions[region_index] IN
         IF Keep(region, MinimumAreaKey, MaximumAreaKey)
         THEN /\ circled_image' = circle(circled_image, region)
              /\ img_scaled' = circle(img_scaled, region)
              /\ label_counter' = label_counter + 1
              /\ counter' = counter + 1
         ELSE UNCHANGED <<circled_image, img_scaled, label_counter, counter>>
    /\ region_index' = region_index + 1
    /\ UNCHANGED <<uploaded_file, session_state, BlockSize, Constant,
                   MinimumAreaKey, MaximumAreaKey, mask_image,
                   opened, inverted_opened, labeled_image, returned, ui,
                   raised, pc, fnVars>>

\* One iteration of "for region in regionprops(labeled_image)".
CountsSpotsLoop ==
    /\ pc = "counts_loop"
    /\ region_index <= Len(labeled_image.regions)
    /\ LET region == labeled_image.regions[region_index] IN
         IF Keep(region, MinimumAreaKey, MaximumAreaKey)
         THEN /\ circled_image' = circle(circled_image, region)
              /\ label_counter' = label_counter + 1
              /\ counter' = counter + 1
         ELSE UNCHANGED <<circled_image, label_counter, counter>>
    /\ region_index' = region_index + 1
    /\ UNCHANGED <<uploaded_file, session_state, BlockSize, Constant,
                   MinimumAreaKey, MaximumAreaKey, img_scaled, mask_image,
                   opened, inverted_opened, labeled_image, returned, ui,
                   raised, pc, fnVars>>

\* Mutant: the function returns label_counter, which starts at 1.
CountsSpotsReturn_LabelCounter ==
    /\ pc = "counts_loop"
    /\ region_index > Len(labeled_image.regions)
    /\ returned' = <<circled_image, label_counter>>
    /\ pc' = "unpack"
    /\ UNCHANGED <<uploaded_file, session_state, BlockSize, Constant,
                   MinimumAreaKey, MaximumAreaKey, img_scaled, mask_image,
                   opened, inverted_opened, labeled_image, circled_image,
                   counter, label_counter, region_index, ui, raised, fnVars>>

\* return circled_image, counter
CountsSpotsReturn ==
    /\ pc = "counts_loop"
    /\ region_index > Len(labeled_image.regions)
    /\ returned' = <<circled_image, counter>>
    /\ pc' = "unpack"
    /\ UNCHANGED <<uploaded_file, session_state, BlockSize, Constant,
                   MinimumAreaKey, MaximumAreaKey, img_scaled, mask_image,
                   opened, inverted_opened, labeled_image, circled_image,
                   counter, label_counter, region_index, ui, raised, fnVars>>

RECURSIVE AreasOf(_)
AreasOf(regions) ==
    IF regions = <<>> THEN <<>>
    ELSE <<Head(regions).area>> \o AreasOf(Tail(regions))

\* The script after the unpacking, for a 3-tuple ret: the comparison, the
\* count, the download button and the histogram of the areas of
\* regionprops(filtered_labelled_image); create_dataframe is defined nowhere,
\* so the call raises NameError before the table.
Report(ret) ==
    /\ ui' = ui \o <<[element |-> "image_comparison", img1 |-> img_scaled,
                      img2 |-> ret[1]],
                     [element |-> "count", value |-> ret[2]],
                     [element |-> "download_image", image |-> ret[1]],
                     [element |-> "histogram",
                      areas |-> AreasOf(ret[3].regions)]>>
    /\ raised' = "NameError"

\* circled_image, counter, filtered_labelled_image = counts_spots(...):
\* unpacking a tuple that does not have three elements raises ValueError.
Unpack ==
    /\ pc = "unpack"
    /\ IF Len(returned) = 3
       THEN Report(returned)
       ELSE /\ raised' = "ValueError"
            /\ ui' = ui
    /\ pc' = "stopped"
    /\ UNCHANGED <<uploaded_file, session_state, BlockSize, Constant,
                   MinimumAreaKey, MaximumAreaKey, img_scaled, mask_image,
                   opened, inverted_opened, labeled_image, circled_image,
                   counter, label_counter, region_index, returned, fnVars>>

MoveBlockSize == MoveSlider("BlockSizeKey", SliderStops(BlockSizeSlider))
MoveConstant == MoveSlider("ConstantKey", SliderStops(ConstantSlider))
MoveMinimumArea == MoveSlider("MinimumAreaKey", SliderStops(MinimumAreaSlider))
MoveMaximumArea == MoveSlider("MaximumAreaKey", SliderStops(MaximumAreaSlider))

Next ==
    \/ UploadFile
    \/ MoveBlockSize
    \/ MoveConstant
    \/ MoveMinimumArea
    \/ MoveMaximumArea
    \/ ReadImage
    \/ SizeCheck
    \/ ResizeImage
    \/ MakeSegmentedImage
    \/ MorphologyEx
    \/ Invert
    \/ Label
    \/ CountsSpotsEnter
    \/ CountsSpotsLoop
    \/ CountsSpotsReturn
    \/ Unpack

Spec == Init /\ [][Next]_vars


\* The full slider ranges: the user drags a slider to any of its values at
\* most MaxDrag steps away from where it stands, so that every value of the
\* slider is reached by repeated drags.
WithinDrag(key, s) ==
    {v \in SliderValues(s) :
        /\ v - session_state[key] <= MaxDrag * s.step
        /\ session_state[key] - v <= MaxDrag * s.step}

SetBlockSize == MoveSlider("BlockSizeKey", WithinDrag("BlockSizeKey", BlockSizeSlider))
SetConstant == MoveSlider("ConstantKey", WithinDrag("ConstantKey", ConstantSlider))
SetMinimumArea == MoveSlider("MinimumAreaKey", WithinDrag("MinimumAreaKey", MinimumAreaSlider))
SetMaximumArea == MoveSlider("MaximumAreaKey", WithinDrag("MaximumAreaKey", MaximumAreaSlider))

NextSliders ==
    \/ SetBlockSize
    \/ SetConstant
    \/ SetMinimumArea
    \/ SetMaximumArea

SpecSliders == Init /\ [][NextSliders]_vars

----------------------------------------------------------------------------
(* read_image and make_segmented_image on one-row arrays *)

uint8_max == 255

\* The float64 NaN that 0 / 0 gives (numpy warns and goes on).
NaN == 0 - 1

Levels == (0 .. MaxGray) \cup {uint8_max}
Images == UNION {[1..n -> Levels] : n \in 1..MaxWidth}

ArrayMin(a) == CHOOSE v \in {a[i] : i \in DOMAIN a} :
                   \A i \in DOMAIN a : v <= a[i]
ArrayMax(a) == CHOOSE v \in {a[i] : i \in DOMAIN a} :
                   \A i \in DOMAIN a : v >= a[i]

\* read_image after the decoding.  img_normalized is (img - min_val) /
\* (max_val - min_val) in float64; (img_normalized * 255).astype(np.uint8)
\* truncates, and for 0 <= a <= d <= 255 the float64 value of (a / d) * 255
\* truncates to (a * 255) \div d.  When max_val = min_val every quotient is
\* 0 / 0 = NaN, and the cast of NaN to uint8 is undefined: cast_of_nan is
\* the value the build gives.
read_image(img, cast_of_nan) ==
    LET min_val == ArrayMin(img)
        max_val == ArrayMax(img)
    IN  [i \in DOMAIN img |->
            IF max_val - min_val = 0
            THEN cast_of_nan
            ELSE ((img[i] - min_val) * 255) \div (max_val - min_val)]

\* OpenCV's Gaussian kernel of size 5 and 7 (sigma from the size), as
\* integer weights over their sum.
GaussianKernel(ksize) ==
    IF ksize = 5 THEN <<1, 4, 6, 4, 1>> ELSE <<2, 7, 14, 18, 14, 7, 2>>
KernelSum(ksize) == IF ksize = 5 THEN 16 ELSE 64

\* BORDER_REPLICATE: a column outside the row reads the nearest pixel.
Clamp(i, n) == IF i < 1 THEN 1 ELSE IF i > n THEN n ELSE i

RECURSIVE WeightedSum(_, _, _, _)
WeightedSum(src, i, ksize, k) ==
    IF k > ksize THEN 0
    ELSE GaussianKernel(ksize)[k]
             * src[Clamp(i + k - (ksize + 1) \div 2, Len(src))]
         + WeightedSum(src, i, ksize, k + 1)

\* The blurred value rounded to uint8; a tie rounds either way (to even
\* in the float path, up in the fixed-point path of the blur).
LocalMeans(src, i, ksize) ==
    LET total == WeightedSum(src, i, ksize, 1)
        den == KernelSum(ksize)
    IN  IF 2 * (total % den) = den
        THEN {total \div den, total \div den + 1}
        ELSE {(2 * total + den) \div (2 * den)}

\* adaptiveThreshold(src, 255, ADAPTIVE_THRESH_GAUSSIAN_C, THRESH_BINARY,
\* BlockSize, Constant): dst = 255 where src > mean - Constant, else 0.
adaptiveThreshold(src, block_size, C) ==
    {dst \in [DOMAIN src -> {0, uint8_max}] :
        \A i \in DOMAIN src :
            \E mean \in LocalMeans(src, i, block_size) :
                dst[i] = IF src[i] > mean - C THEN uint8_max ELSE 0}

\* numpy's a / b in float64 for the operands of line 86: 0 / 0 is NaN; the
\* other quotients there are 0 / 255 and 255 / 255.
TrueDivide(a, b) == IF b = 0 THEN NaN ELSE a \div b

\* make_segmented_image, given the array adaptiveThreshold returned.
Rescale(segmented_image) ==
    [i \in DOMAIN segmented_image |->
        TrueDivide(segmented_image[i] - ArrayMin(segmented_image),
                   ArrayMax(segmented_image) - ArrayMin(segmented_image))]

make_segmented_image(grayscaleimage, block_size, C) ==
    {Rescale(segmented_image) :
        segmented_image \in adaptiveThreshold(grayscaleimage, block_size, C)}

InitReadImage ==
    /\ AppInit
    /\ image \in Images
    /\ fn_args = <<>>
    /\ fn_result = <<>>

\* read_image(image_path) once the file is decoded to the array image.
CallReadImage ==
    /\ fn_result = <<>>
    /\ \E cast_of_nan \in 0 .. uint8_max :
          fn_result' = read_image(image, cast_of_nan)
    /\ UNCHANGED <<image, fn_args, appVars>>

NextReadImage == CallReadImage

SpecReadImage == InitReadImage /\ [][NextReadImage]_vars

InitSegment ==
    /\ AppInit
    /\ image \in Images
    /\ fn_args \in BlockSizes \X SliderValues(ConstantSlider)
    /\ fn_result = <<>>

\* make_segmented_image(image, BlockSize, Constant)
CallMakeSegmentedImage ==
    /\ fn_result = <<>>
    /\ fn_result' \in make_segmented_image(image, fn_args[1], fn_args[2])
    /\ UNCHANGED <<image, fn_args, appVars>>

NextSegment == CallMakeSegmentedImage

SpecSegment == InitSegment /\ [][NextSegment]_vars

----------------------------------------------------------------------------
(* Properties *)

\* The regions among the first n of regionprops(labeled_image) whose area
\* lies in the inclusive range of the two area sliders.
InRangeAmong(n) ==
    {i \in 1..n : /\ MinimumAreaKey <= labeled_image.regions[i].area
                  /\ labeled_image.regions[i].area <= MaximumAreaKey}

\* The run has passed the size check with an image within the limit.
Accepted ==
    /\ uploaded_file # None
    /\ uploaded_file.shape[1] <= 1000
    /\ uploaded_file.shape[2] <= 1000
    /\ pc \notin {"read_image", "size_check"}

HasElement(name) == \E i \in 1..Len(ui) : ui[i].element = name

\* C1: every iteration of the loop of counts_spots keeps its region
\* (draws one circle for it and counts it) if and only if
\* min_area <= area <= max_area; otherwise it draws and counts nothing.
C1_KeptIffAreaInInclusiveRange ==
    [][(/\ pc = "counts_loop"
        /\ region_index <= Len(labeled_image.regions)
        /\ region_index' = region_index + 1)
       => LET area == labeled_image.regions[region_index].area IN
            IF MinimumAreaKey <= area /\ area <= MaximumAreaKey
            THEN /\ counter' = counter + 1
                 /\ Len(circled_image'.circles) = Len(circled_image.circles) + 1
            ELSE /\ counter' = counter
                 /\ circled_image' = circled_image]_vars

\* The loop has kept a region of area max_area exactly and has rejected a
\* region of area max_area + 1.
C1_Witness ==
    /\ pc = "unpack"
    /\ Len(labeled_image.regions) = 2
    /\ labeled_image.regions[1].area = MaximumAreaKey
    /\ labeled_image.regions[2].area = MaximumAreaKey + 1
    /\ counter = 1
    /\ Len(circled_image.circles) = 1

\* C2: the count counts_spots returns is the number of labeled regions
\* that pass the area filter, and while the loop runs the counter is the
\* number of regions passed so far (0 when none passes).
C2_CountIsNumberOfKeptRegions ==
    /\ pc = "counts_loop" => counter = Cardinality(InRangeAmong(region_index - 1))
    /\ returned # <<>> =>
           returned[2] = Cardinality(InRangeAmong(Len(labeled_image.regions)))

\* counts_spots has returned 1 for two regions, one below min_area.
C2_Witness ==
    /\ returned # <<>>
    /\ returned[2] = 1
    /\ Len(labeled_image.regions) = 2
    /\ \E i \in 1..2 : labeled_image.regions[i].area = MinimumAreaKey - 1

\* C3: when the height or the width of the loaded image exceeds 1000, the
\* run is stopped at the size check with the error message shown, and no
\* later stage has run: the image is not resized and there is no mask, no
\* opened or inverted image, no labeled image and no counting.
C3_OversizeImageStopsTheRun ==
    (/\ uploaded_file # None
     /\ uploaded_file.shape[1] > 1000 \/ uploaded_file.shape[2] > 1000
     /\ pc \notin {"read_image", "size_check"})
    => /\ pc = "stopped"
       /\ ui = <<[element |-> "error"]>>
       /\ raised = "none"
       /\ img_scaled = GrayImage(uploaded_file.shape)
       /\ mask_image = None /\ opened = None /\ inverted_opened = None
       /\ labeled_image = None /\ circled_image = None
       /\ returned = <<>>

\* A run stopped with the error for an image that is only too high.
C3_Witness ==
    /\ pc = "stopped"
    /\ uploaded_file # None
    /\ uploaded_file.shape[1] > 1000
    /\ uploaded_file.shape[2] <= 1000
    /\ HasElement("error")

\* C4: an accepted run whose pipeline has come to the end of counts_spots
\* ends without an exception and with the four outputs on the page: the
\* count, the annotated image, the histogram and the table.
C4_AcceptedRunEmitsAllOutputs ==
    (Accepted /\ returned # <<>> /\ pc = "stopped")
    => /\ raised = "none"
       /\ HasElement("count")
       /\ HasElement("image_comparison")
       /\ HasElement("histogram")
       /\ HasElement("dataframe")

\* C5: the array read_image returns has minimum 0 and maximum 255 and all
\* its values in 0..255, for every decoded image.
C5_ReadImageSpansFullRange ==
    fn_result # <<>>
    => /\ \A i \in DOMAIN fn_result : fn_result[i] \in 0..255
       /\ \E i \in DOMAIN fn_result : fn_result[i] = 0
       /\ \E i \in DOMAIN fn_result : fn_result[i] = 255

\* C6: every value of the mask make_segmented_image returns is 0 or 1.
C6_MaskIsBinary ==
    fn_result # <<>> => \A i \in DOMAIN fn_result : fn_result[i] \in {0, 1}

\* C7: a run that has counted its spots ends with a histogram and a table
\* that each have as many entries as the count, all within
\* [min_area, max_area].
C7_ReportIsOfKeptRegions ==
    (Accepted /\ returned # <<>> /\ pc = "stopped")
    => /\ \E i \in 1..Len(ui) :
             /\ ui[i].element = "histogram"
             /\ Len(ui[i].areas) = returned[2]
             /\ \A k \in 1..Len(ui[i].areas) :
                    /\ MinimumAreaKey <= ui[i].areas[k]
                    /\ ui[i].areas[k] <= MaximumAreaKey
       /\ \E i \in 1..Len(ui) :
             /\ ui[i].element = "dataframe"
             /\ Len(ui[i].rows) = returned[2]

\* C8: a run goes past the size check only with an image whose height and
\* width are both strictly less than 1000.
C8_OnlySizesBelowLimitProceed ==
    (uploaded_file # None /\ pc \notin {"read_image", "size_check", "stopped"})
    => /\ uploaded_file.shape[1] < 1000
       /\ uploaded_file.shape[2] < 1000

\* C9: a step of counts_spots leaves the grayscale source image and the
\* labeled image as they are, and the 3-channel copy carries one circle for
\* each region kept so far and none for a rejected one.
C9_CirclesOnCopyOnly ==
    [][(pc \in {"counts_spots", "counts_loop"} /\ pc' \in {"counts_loop", "unpack"})
       => /\ img_scaled' = img_scaled
          /\ img_scaled'.circles = <<>>
          /\ labeled_image' = labeled_image
          /\ circled_image'.channels = 3
          /\ circled_image'.shape = img_scaled.shape
          /\ Len(circled_image'.circles)
                 = Cardinality(InRangeAmong(region_index' - 1))]_vars

\* counts_spots has drawn two circles for two kept regions, and the source
\* image carries none.
C9_Witness ==
    /\ pc = "unpack"
    /\ Len(labeled_image.regions) = 2
    /\ Len(circled_image.circles) = 2
    /\ img_scaled.circles = <<>>
    /\ img_scaled.channels = 1

\* C10: the slider values and the parameters the script reads from them:
\* BlockSize odd in 5..101, Constant even in 2..20, min_area in 2..50,
\* max_area in 500..2000, and min_area < max_area.
C10_ParametersInRange ==
    /\ BlockSize = session_state.BlockSizeKey
    /\ Constant = session_state.ConstantKey
    /\ MinimumAreaKey = session_state.MinimumAreaKey
    /\ MaximumAreaKey = session_state.MaximumAreaKey
    /\ BlockSize \in 5..101 /\ BlockSize % 2 = 1 /\ BlockSize > 1
    /\ Constant \in 2..20 /\ Constant % 2 = 0
    /\ MinimumAreaKey \in 2..50
    /\ MaximumAreaKey \in 500..2000
    /\ MinimumAreaKey < MaximumAreaKey

\* All four sliders moved: the largest min_area with the smallest max_area.
C10_Witness ==
    /\ BlockSize = 101
    /\ Constant = 20
    /\ MinimumAreaKey = 50
    /\ MaximumAreaKey = 500

\* C11: a run whose image passed the size check hands the segmenter a
\* resized image of width 674 and height floor(height * 674 / width), which
\* is at least 1; resize_image does not fail.
C11_ResizedImageNotEmpty ==
    (Accepted /\ pc # "resize_image")
    => /\ raised # "cv2.error"
       /\ img_scaled.shape[2] = 674
       /\ img_scaled.shape[1]
              = (uploaded_file.shape[1] * 674) \div uploaded_file.shape[2]
       /\ img_scaled.shape[1] >= 1

====
